---- MODULE Spec2Model ----
(***************************************************************************)
(* Job monitoring, cancellation and submission in the AuraAnim front end.  *)
(*                                                                         *)
(*   hooks/use-job-monitor (src/unnamed/part_009)  the useJobMonitor store  *)
(*   api/video.ts                                  videoApi (mock branch)   *)
(*   lib/mock-data.ts                              mockJobs                 *)
(*   components/common/job-mini-card.tsx           cancel button            *)
(*   app/jobs/page.tsx                             jobs table               *)
(*   create-video sections (src/unnamed/part_003)  handleSubmit             *)
(*                                                                         *)
(* The FastAPI back end is not part of the sources; where a claim needs it  *)
(* (the progress channel behind the WebSocket), it is modelled from the     *)
(* specification and marked so.                                            *)
(***************************************************************************)
EXTENDS Integers, Sequences, FiniteSets, TLC

VARIABLES
    useMock,        \* USE_MOCK_DATA
    mockJobs,       \* lib/mock-data.ts mockJobs: Job[]
    activeJobs,     \* useJobMonitor.activeJobs: Job[]
    websockets,     \* keys of useJobMonitor.websockets
    open,           \* job ids whose connection object is live
    progress,       \* `let progress` of each mock interval closure
    timers,         \* pending setTimeout(removeJob, 5000) per job id
    inflight,       \* initializeJobs calls awaiting videoApi.getJobs
    backendJobs,    \* the job records of the back end (non-mock mode)
    inbox,          \* frames sent to each job's WebSocket, not yet handled
    cancelResult,   \* how the last videoApi.cancelJob promise settled
    pageStatus,     \* app/jobs/page.tsx: job statuses of the ["jobs"] query data
    lastEvent,      \* progress_percentage of the last progress event per job id
    submission,     \* the last submit of a create-video form and how it went
    lastInit,       \* how far the last initializeJobs call has got
    auth,           \* useAuthStore: user, tokens, isAuthenticated, isInitialized
    requests,       \* requests of the auth flows awaiting their response
    route,          \* the mounted ProtectedRoute: its state and navigation
    jobRecords,     \* Scheduler: the Job Record of each submitted job id
    queue,          \* Scheduler: pending job ids in submission order
    dispatching,    \* Scheduler: job ids taken off the queue, run not yet made
    runs,           \* the active Pipeline Runs of each job id
    gpuInUse,       \* Scheduler: GPU pool occupancy
    cpuInUse,       \* Scheduler: CPU pool occupancy
    history,        \* per job id: dispatches, stage invocations, cancel origin
    definition      \* the Pipeline Definition last resolved

vars == <<useMock, mockJobs, activeJobs, websockets, open, progress,
          timers, inflight, backendJobs, inbox, cancelResult, pageStatus,
          lastEvent, submission, lastInit, auth, requests, route, jobRecords,
          queue, dispatching, runs, gpuInUse,
          cpuInUse, history, definition>>

\* the state of the front end and of the back end behind its API
FrontVars ==
    <<useMock, mockJobs, activeJobs, websockets, open, progress, timers,
      inflight, backendJobs, inbox, cancelResult, pageStatus, lastEvent,
      submission, lastInit, auth, requests, route>>

\* the state of the auth store and of the route guarded by it
AuthVars == <<auth, requests, route>>

\* the state of the back end's scheduler and pipeline
SchedVars ==
    <<jobRecords, queue, dispatching, runs, gpuInUse, cpuInUse, history,
      definition>>

\* everything but the auth store and its route
NonAuthVars ==
    <<useMock, mockJobs, activeJobs, websockets, open, progress, timers,
      inflight, backendJobs, inbox, cancelResult, pageStatus, lastEvent,
      submission, lastInit, SchedVars>>

----------------------------------------------------------------------------
(* Bounds *)

MaxTimers == 1
MaxInflight == 1
MaxInbox == 2
MaxPromptLen == 2

----------------------------------------------------------------------------
(* types/video.types.ts *)

JobStatus == {"pending", "processing", "completed", "failed", "cancelled"}

FinalStatuses == {"completed", "failed", "cancelled"}

NULL == "null"

\* a timestamp string; its value is never compared
TS == "ts"

JobIds == {"job-1", "job-6", "job-7"}

\* A Job object.  `shared` is the object's identity: TRUE when the array
\* element is the very object held in mockJobs (Array.filter copies
\* references), FALSE for a copy made by a spread.
Job(id, st, p, c, sh) ==
    [job_id |-> id, status |-> st, progress_percentage |-> p,
     completed_at |-> c, shared |-> sh]

\* lib/mock-data.ts:165-292; jobs 2-5 are completed jobs like job-1
MockData ==
    << Job("job-1", "completed", 100, TS, TRUE),
       Job("job-6", "processing", 65, NULL, TRUE),
       Job("job-7", "pending", 0, NULL, TRUE) >>

\* The job lists checked: a completed job together with one unfinished job
\* (the jobs of a list do not interact except through the arrays they are in)
Selections == {<<1, 2>>, <<1, 3>>}

Select(data, sel) == [k \in 1..Len(sel) |-> data[sel[k]]]

InitMockJobs == {Select(MockData, sel) : sel \in Selections}

\* Math.random() * 15 of the mock interval, seen through Math.floor
MaxRandomStep == 15
RandomDraws == {0, MaxRandomStep}

NoEvent == -1

----------------------------------------------------------------------------
(* Array helpers *)

\* Array.prototype.find by job_id: index of the first match, 0 when none
Find(arr, id) ==
    IF \E i \in 1..Len(arr) : arr[i].job_id = id
    THEN CHOOSE i \in 1..Len(arr) :
            /\ arr[i].job_id = id
            /\ \A k \in 1..(i-1) : arr[k].job_id # id
    ELSE 0

\* Array.prototype.filter
Filter(arr, keep(_)) == SelectSeq(arr, keep)

Min(a, b) == IF a < b THEN a ELSE b

RemoveAt(seq, k) == SubSeq(seq, 1, k - 1) \o SubSeq(seq, k + 1, Len(seq))

IsActive(job) == job.status = "pending" \/ job.status = "processing"

----------------------------------------------------------------------------
(* The back end behind getJobs and the WebSocket.  Its code is not in the  *)
(* sources; this is the Job state machine and the Progress Notifier of the *)
(* specification (sections 4.3, 4.5).                                      *)

\* progress added by one stage of the pipeline
StageStep == 30

\* the back end starts with the jobs the mock data describe; without a
\* back end (mock mode) there are none
InitBackendJobs(mock, jobs) ==
    IF mock THEN <<>>
    ELSE [k \in 1..Len(jobs) |-> [jobs[k] EXCEPT !.shared = FALSE]]

Frame(k, st, p, f) ==
    [kind |-> k, status |-> st, progress_percentage |-> p, final |-> f]

CloseFrame == Frame("close", NULL, 0, FALSE)

\* the ProgressEvent describing a job record
EventOf(job) ==
    Frame("event", job.status, job.progress_percentage,
          job.status \in FinalStatuses)

\* subscribe that leaves the subscriber of an unknown job id without reply
Subscribe_Hangs(jobs, jobId) ==
    LET i == Find(jobs, jobId)
    IN IF i = 0 THEN <<>>
       ELSE IF jobs[i].status \in FinalStatuses
            THEN <<EventOf(jobs[i]), CloseFrame>>
            ELSE <<EventOf(jobs[i])>>

\* subscribe(job_id): the latest known event first; a terminal event ends
\* the stream; an unknown job id is refused
Subscribe(jobs, jobId) ==
    LET i == Find(jobs, jobId)
    IN IF i = 0 THEN <<CloseFrame>>
       ELSE IF jobs[i].status \in FinalStatuses
            THEN <<EventOf(jobs[i]), CloseFrame>>
            ELSE <<EventOf(jobs[i])>>

\* publish(event) to the subscriber of the job, if there is one
Publish(box, subscribed, job) ==
    IF job.job_id \in subscribed
    THEN [box EXCEPT ![job.job_id] =
            IF job.status \in FinalStatuses
            THEN @ \o <<EventOf(job), CloseFrame>>
            ELSE Append(@, EventOf(job))]
    ELSE box

----------------------------------------------------------------------------
(* The store, as one value, so that the store's methods compose *)

Store ==
    [activeJobs |-> activeJobs, websockets |-> websockets, open |-> open,
     progress |-> progress, timers |-> timers, inbox |-> inbox]

SetStore(st) ==
    /\ activeJobs' = st.activeJobs
    /\ websockets' = st.websockets
    /\ open' = st.open
    /\ progress' = st.progress
    /\ timers' = st.timers
    /\ inbox' = st.inbox

\* a close that leaves the connection delivering
closeConnection_StillOpen(st, jobId) == st

\* connection.close() / ws.close() / clearInterval(connection):
\* the connection object of the job stops delivering (part_009:136,157,167,
\* 186,188); frames still on their way to a closed socket are dropped
closeConnection(st, jobId) ==
    [st EXCEPT !.open = @ \ {jobId}, !.inbox[jobId] = <<>>,
               !.progress[jobId] = 0]

\* websockets.delete(jobId) inside a connection callback (part_009:137,158,
\* 168,172).  `websockets` there is the Map read at line 102; lines 142 and
\* 176 store a copy of it (new Map(websockets)), so the Map held by the
\* store is another object and keeps its entry.
closureDelete(st, jobId) == st

\* disconnectWebSocket without websockets.delete (part_009:190-191)
disconnectWebSocket_KeepsEntry(st, jobId) ==
    IF jobId \in st.websockets
    THEN closeConnection(st, jobId)
    ELSE st

\* disconnectWebSocket (part_009:180-193)
disconnectWebSocket(st, jobId) ==
    IF jobId \in st.websockets
    THEN [closeConnection(st, jobId) EXCEPT !.websockets = @ \ {jobId}]
    ELSE st

\* connectWebSocket without the websockets.has check (part_009:105-107)
connectWebSocket_NoHasCheck(st, jobId) ==
    IF useMock
    THEN LET i == Find(st.activeJobs, jobId)
             p == IF i = 0 THEN 0 ELSE st.activeJobs[i].progress_percentage
         IN [st EXCEPT !.progress[jobId] = p,
                       !.websockets = @ \cup {jobId},
                       !.open = @ \cup {jobId}]
    ELSE [st EXCEPT !.inbox[jobId] = Subscribe(backendJobs, jobId),
                    !.websockets = @ \cup {jobId},
                    !.open = @ \cup {jobId}]

\* connectWebSocket (part_009:101-178)
connectWebSocket(st, jobId) ==
    IF jobId \in st.websockets
    THEN st
    ELSE IF useMock
    THEN LET i == Find(st.activeJobs, jobId)
             p == IF i = 0 THEN 0 ELSE st.activeJobs[i].progress_percentage
         IN [st EXCEPT !.progress[jobId] = p,
                       !.websockets = @ \cup {jobId},
                       !.open = @ \cup {jobId}]
    ELSE [st EXCEPT !.inbox[jobId] = Subscribe(backendJobs, jobId),
                    !.websockets = @ \cup {jobId},
                    !.open = @ \cup {jobId}]

\* updateJob merging the status only, not the whole update (part_009:59)
updateJob_StatusOnly(st, jobId, update) ==
    LET merged(job) ==
            IF job.job_id = jobId
            THEN Job(job.job_id, update.status, job.progress_percentage,
                     job.completed_at, FALSE)
            ELSE job
        st1 == [st EXCEPT !.activeJobs =
                    [i \in 1..Len(st.activeJobs) |-> merged(st.activeJobs[i])]]
    IN IF update.status \in FinalStatuses
       THEN [disconnectWebSocket(st1, jobId) EXCEPT !.timers[jobId] = @ + 1]
       ELSE st1

\* updateJob (part_009:55-74); update = [status, progress_percentage]
updateJob(st, jobId, update) ==
    LET merged(job) ==
            IF job.job_id = jobId
            THEN Job(job.job_id, update.status, update.progress_percentage,
                     job.completed_at, FALSE)
            ELSE job
        st1 == [st EXCEPT !.activeJobs =
                    [i \in 1..Len(st.activeJobs) |-> merged(st.activeJobs[i])]]
    IN IF update.status \in FinalStatuses
       THEN [disconnectWebSocket(st1, jobId) EXCEPT !.timers[jobId] = @ + 1]
       ELSE st1

\* removeJob (part_009:49-53)
removeJob(st, jobId) ==
    LET st1 == disconnectWebSocket(st, jobId)
    IN [st1 EXCEPT !.activeJobs =
            Filter(st1.activeJobs, LAMBDA j : j.job_id # jobId)]

RECURSIVE connectAll(_, _)
\* activeJobs.forEach(job => get().connectWebSocket(job.job_id))
\* (part_009:92-94)
connectAll(st, jobs) ==
    IF jobs = <<>> THEN st
    ELSE connectAll(connectWebSocket(st, Head(jobs).job_id), Tail(jobs))

\* initializeJobs storing the whole response, unfiltered (part_009:85-89)
applyJobs_NoFilter(st, data) ==
    connectAll([st EXCEPT !.activeJobs = data], Filter(data, IsActive))

\* the part of initializeJobs after a successful response (part_009:84-95)
applyJobs(st, data) ==
    LET act == Filter(data, IsActive)
    IN connectAll([st EXCEPT !.activeJobs = act], act)

----------------------------------------------------------------------------
(* api/video.ts, mock branch *)

\* a job id that no job has
UnknownId == "job-0"

CancelIds == JobIds \cup {UnknownId}

OK == "ok"
NotFoundError == "Job not found"
StatusError == "Job cannot be cancelled in current status"

\* cancelJob without the status check of video.ts:140-142
cancelJob_NoStatusCheck(jobs, jobId) ==
    LET i == Find(jobs, jobId)
    IN IF i = 0
       THEN [jobs |-> jobs, result |-> NotFoundError]
       ELSE [jobs |-> [jobs EXCEPT ![i].status = "cancelled"],
             result |-> OK]

\* cancelJob returning silently, instead of throwing, at video.ts:141
cancelJob_SilentReturn(jobs, jobId) ==
    LET i == Find(jobs, jobId)
    IN IF i = 0
       THEN [jobs |-> jobs, result |-> NotFoundError]
       ELSE IF jobs[i].status # "pending" /\ jobs[i].status # "processing"
       THEN [jobs |-> jobs, result |-> OK]
       ELSE [jobs |-> [jobs EXCEPT ![i].status = "cancelled"],
             result |-> OK]

\* cancelJob resolving, instead of throwing, for an id no job has
\* (video.ts:137-139)
cancelJob_UnknownResolves(jobs, jobId) ==
    LET i == Find(jobs, jobId)
    IN IF i = 0
       THEN [jobs |-> jobs, result |-> OK]
       ELSE IF jobs[i].status # "pending" /\ jobs[i].status # "processing"
       THEN [jobs |-> jobs, result |-> StatusError]
       ELSE [jobs |-> [jobs EXCEPT ![i].status = "cancelled"],
             result |-> OK]

\* videoApi.cancelJob (video.ts:133-145): the job list afterwards and how
\* the promise settles: OK when it resolves, else the message of the Error
cancelJob(jobs, jobId) ==
    LET i == Find(jobs, jobId)
    IN IF i = 0
       THEN [jobs |-> jobs, result |-> NotFoundError]
       ELSE IF jobs[i].status # "pending" /\ jobs[i].status # "processing"
       THEN [jobs |-> jobs, result |-> StatusError]
       ELSE [jobs |-> [jobs EXCEPT ![i].status = "cancelled"],
             result |-> OK]

\* job.status = "cancelled" (video.ts:143) writes to the job object; the
\* elements of activeJobs that are that object show the write
Alias(arr, jobs) ==
    [i \in 1..Len(arr) |->
        IF arr[i].shared /\ Find(jobs, arr[i].job_id) # 0
        THEN jobs[Find(jobs, arr[i].job_id)]
        ELSE arr[i]]

\* JobMiniCard.canCancel (job-mini-card.tsx:76)
canCancel(status) == status = "pending" \/ status = "processing"

\* canCancelJob (app/jobs/page.tsx:85-87)
canCancelJob(status) == status = "pending" \/ status = "processing"

\* statuses by job id, as the jobs page renders them from getJobs
StatusOf(jobs) ==
    [j \in JobIds |-> IF Find(jobs, j) = 0 THEN NULL
                      ELSE jobs[Find(jobs, j)].status]

----------------------------------------------------------------------------
(* The create-video forms (src/unnamed/part_003) *)

Chars == {" ", "a"}

\* the strings a prompt field can hold, up to MaxPromptLen characters
Prompts == UNION {[1..n -> Chars] : n \in 0..MaxPromptLen}

RECURSIVE trimStart(_)
trimStart(str) ==
    IF str # <<>> /\ Head(str) = " " THEN trimStart(Tail(str)) ELSE str

RECURSIVE trimEnd(_)
trimEnd(str) ==
    IF str # <<>> /\ str[Len(str)] = " "
    THEN trimEnd(SubSeq(str, 1, Len(str) - 1))
    ELSE str

\* String.prototype.trim
trim(str) == trimEnd(trimStart(str))

\* values of the number inputs: Number(e.target.value)
Lengths == {-1, 0, 1, 5}
InferenceSteps == {0, 1, 25, 100, 101}

\* the seed is set by useState and randomizeSeed only (part_003:560-562,
\* 607-609); its input is commented out
Seeds == {0, 2147483646}

\* inference_steps of the quick form's payload (part_003:337)
QuickInferenceSteps == 25

\* newErrors of QuickGenerationSection.handleSubmit (part_003:309-315)
quickErrors(prompt, length) ==
    (IF trim(prompt) = <<>> THEN {"prompt"} ELSE {})
        \cup (IF length < 1 THEN {"length"} ELSE {})

\* fullErrors testing !prompt instead of !prompt.trim() (part_003:615)
fullErrors_NoTrim(prompt, length, inferenceSteps, seed) ==
    (IF prompt = <<>> THEN {"prompt"} ELSE {})
        \cup (IF length < 1 THEN {"length"} ELSE {})
        \cup (IF inferenceSteps < 1 \/ inferenceSteps > 100
              THEN {"inferenceSteps"} ELSE {})
        \cup (IF seed < 0 \/ seed > 2147483647 THEN {"seed"} ELSE {})

\* newErrors of FullGenerationSection.handleSubmit (part_003:614-626)
fullErrors(prompt, length, inferenceSteps, seed) ==
    (IF trim(prompt) = <<>> THEN {"prompt"} ELSE {})
        \cup (IF length < 1 THEN {"length"} ELSE {})
        \cup (IF inferenceSteps < 1 \/ inferenceSteps > 100
              THEN {"inferenceSteps"} ELSE {})
        \cup (IF seed < 0 \/ seed > 2147483647 THEN {"seed"} ELSE {})

NoSubmission ==
    [form |-> NULL, prompt |-> <<>>, video_length |-> 0,
     inference_steps |-> 0, accessToken |-> NULL, errors |-> {},
     phase |-> NULL]

\* handleSubmit up to the await of generateVideo
\* (part_003:306-340, 611-651): the submit as the form handled it
\*   phase "rejected"    returned after setErrors
\*         "no_token"    returned after the toast
\*         "generating"  videoApi.generateVideo called with the payload
handleSubmit(form, prompt, length, inferenceSteps, accessToken, newErrors) ==
    [form |-> form, prompt |-> prompt, video_length |-> length,
     inference_steps |-> inferenceSteps, accessToken |-> accessToken,
     errors |-> newErrors,
     phase |-> IF newErrors # {} THEN "rejected"
               ELSE IF accessToken = NULL THEN "no_token"
               ELSE "generating"]

----------------------------------------------------------------------------
(* The back end's Pipeline Definition, Scheduler/Dispatcher and            *)
(* Cancellation Controller.  Their code is not in the sources; this is the *)
(* design of the specification (sections 3, 4.1-4.4, 4.6, 5).              *)

MaxJobs == 2

\* the job ids a client can submit
SchedIds == 1..MaxJobs

\* the configured pool sizes
GpuPoolSize == 1
CpuPoolSize == 1

CPU == "CPU"
GPU == "GPU"

\* the ordered stage sequence, each stage's resource class and its share of
\* the job-level percentage (section 4.1)
Stages == <<"preprocess", "generate", "interpolate", "upscale", "postprocess">>
ResourceClass == <<CPU, GPU, GPU, GPU, CPU>>
Weights == <<5, 55, 15, 20, 5>>

RECURSIVE WeightBefore(_)
\* the job-level percentage reached when stage k starts
WeightBefore(k) == IF k = 1 THEN 0 ELSE WeightBefore(k - 1) + Weights[k - 1]

\* a job id nobody has submitted has no Job Record
NoJob == [status |-> NULL, progress_percentage |-> 0, completed_at |-> NULL]

\* what happened to a job id so far: Pipeline Runs created for it, whether
\* a stage executor was ever invoked for it, the status a cancel request
\* found it in, whether a dispatch found it cancelled
NoHistory ==
    [dispatches |-> 0, invoked |-> FALSE, cancelledFrom |-> NULL,
     skipped |-> FALSE]

\* a Pipeline Run as the dispatcher creates it: first stage not yet started,
\* cancellation token not set
NewRun == [stage |-> 1, state |-> "ready", fraction |-> 0, token |-> FALSE]

\* a pool that admits a stage whatever its occupancy
HasFreeSlot_Always(class, gpu, cpu) == TRUE

\* a free slot in the pool of a resource class (section 4.4)
HasFreeSlot(class, gpu, cpu) ==
    IF class = GPU THEN gpu < GpuPoolSize ELSE cpu < CpuPoolSize

\* a dispatcher that leaves the dispatched job at the head of the queue
Dequeue_Keeps(q) == q

\* the queue after its head was taken for dispatch (FIFO, section 4.4)
Dequeue(q) == Tail(q)

\* a dispatcher that does not look at the job's status again
MayStartRun_Always(job) == TRUE

\* a Pipeline Run is created only for a job that is still pending
\* (sections 4.3, 4.6)
MayStartRun(job) == job.status = "pending"

RemoveAll(q, j) == SelectSeq(q, LAMBDA x : x # j)

\* pool occupancy after a stage of the class took (d = 1) or gave back
\* (d = -1) its slot
Occupancy(class, of, inUse, d) == IF class = of THEN inUse + d ELSE inUse

\* the fixed operating point of the generator (section 4.2)
BaseResolution == 512
BaseFps == 8

\* the requests the create-video form can make (part_003:464-465)
Resolutions == {128, 256, 480, 512, 720, 1024, 2048, 4096}
FpsValues == {8, 16, 24, 32}
VideoLengths == {1, 5, 10}

RECURSIVE GCD(_, _)
GCD(a, b) == IF b = 0 THEN a ELSE GCD(b, a % b)

\* the quotient a / b as a fraction in lowest terms
Quotient(a, b) == <<a \div GCD(a, b), b \div GCD(a, b)>>

\* the factor taken the wrong way round, base / requested
UpscaleFactor_Inverted(resolution) == Quotient(BaseResolution, resolution)

\* upscale factor: requested / base resolution
UpscaleFactor(resolution) == Quotient(resolution, BaseResolution)

\* interpolation factor: requested / base fps
InterpolationFactor(fps) == Quotient(fps, BaseFps)

NoDefinition == [resolution |-> 0, fps |-> 0, video_length |-> 0]

\* the ordered stage sequence with its per-stage configuration; a stage
\* whose factor is 1 passes its input through
PipelineDefinition(resolution, fps, video_length) ==
    [resolution |-> resolution, fps |-> fps, video_length |-> video_length,
     stages |-> Stages,
     generate |-> [resolution |-> BaseResolution, fps |-> BaseFps,
                   frames |-> BaseFps * video_length],
     interpolate |-> [factor |-> InterpolationFactor(fps),
                      frames |-> fps * video_length,
                      pass_through |-> InterpolationFactor(fps) = <<1, 1>>],
     upscale |-> [factor |-> UpscaleFactor(resolution),
                  pass_through |-> UpscaleFactor(resolution) = <<1, 1>>]]

\* the Pipeline Definition is resolved for a request
ResolvePipeline(resolution, fps, video_length) ==
    /\ UNCHANGED FrontVars
    /\ definition' = PipelineDefinition(resolution, fps, video_length)
    /\ UNCHANGED <<jobRecords, queue, dispatching, runs, gpuInUse, cpuInUse,
                   history>>

\* submit(job) -> accepted: the Job Record is created in pending and queued
Submit(j) ==
    /\ UNCHANGED FrontVars
    /\ jobRecords[j].status = NULL
    /\ jobRecords' = [jobRecords EXCEPT ![j].status = "pending"]
    /\ queue' = Append(queue, j)
    /\ UNCHANGED <<dispatching, runs, gpuInUse, cpuInUse, history,
                   definition>>

\* the dispatcher takes the job at the head of the queue when the pool of
\* its first stage has a free slot; until then the job stays pending
DispatchPick(j) ==
    /\ UNCHANGED FrontVars
    /\ queue # <<>>
    /\ j = Head(queue)
    /\ HasFreeSlot(ResourceClass[1], gpuInUse, cpuInUse)
    /\ queue' = Dequeue(queue)
    /\ dispatching' = Append(dispatching, j)
    /\ UNCHANGED <<jobRecords, runs, gpuInUse, cpuInUse, history, definition>>

\* ... and creates its Pipeline Run: pending -> processing
DispatchStart(j) ==
    /\ UNCHANGED FrontVars
    /\ dispatching # <<>>
    /\ j = Head(dispatching)
    /\ dispatching' = Tail(dispatching)
    /\ IF MayStartRun(jobRecords[j])
       THEN /\ jobRecords' = [jobRecords EXCEPT ![j].status = "processing"]
            /\ runs' = [runs EXCEPT ![j] = Append(@, NewRun)]
            /\ history' = [history EXCEPT ![j].dispatches = @ + 1]
       ELSE /\ history' = [history EXCEPT ![j].skipped = TRUE]
            /\ UNCHANGED <<jobRecords, runs>>
    /\ UNCHANGED <<queue, gpuInUse, cpuInUse, definition>>

\* the terminal transition of a job: the Job Record is closed and the
\* Pipeline Run k destroyed
Finish(j, k, status, percentage) ==
    /\ jobRecords' = [jobRecords EXCEPT ![j] = [status |-> status,
                                    progress_percentage |-> percentage,
                                    completed_at |-> TS]]
    /\ runs' = [runs EXCEPT ![j] = RemoveAt(@, k)]

\* the stage executor of run k is invoked; it checks the cancellation token
\* before starting, then takes a slot of its resource class
StageStart(j, k) ==
    /\ UNCHANGED FrontVars
    /\ k \in 1..Len(runs[j])
    /\ runs[j][k].state = "ready"
    /\ LET run == runs[j][k]
           class == ResourceClass[run.stage]
       IN IF run.token
          THEN /\ Finish(j, k, "cancelled", jobRecords[j].progress_percentage)
               /\ UNCHANGED <<gpuInUse, cpuInUse, history>>
          ELSE /\ HasFreeSlot(class, gpuInUse, cpuInUse)
               /\ gpuInUse' = Occupancy(class, GPU, gpuInUse, 1)
               /\ cpuInUse' = Occupancy(class, CPU, cpuInUse, 1)
               /\ runs' = [runs EXCEPT ![j][k].state = "running"]
               /\ history' = [history EXCEPT ![j].invoked = TRUE]
               /\ UNCHANGED jobRecords
    /\ UNCHANGED <<queue, dispatching, definition>>

\* the progress callback of the running stage, a checkpoint: the executor
\* sees the token and unwinds, or reports its progress
StageProgress(j, k) ==
    /\ UNCHANGED FrontVars
    /\ k \in 1..Len(runs[j])
    /\ runs[j][k].state = "running"
    /\ runs[j][k].fraction = 0
    /\ LET run == runs[j][k]
           class == ResourceClass[run.stage]
       IN IF run.token
          THEN /\ Finish(j, k, "cancelled", jobRecords[j].progress_percentage)
               /\ gpuInUse' = Occupancy(class, GPU, gpuInUse, -1)
               /\ cpuInUse' = Occupancy(class, CPU, cpuInUse, -1)
          ELSE /\ runs' = [runs EXCEPT ![j][k].fraction = 1]
               /\ jobRecords' = [jobRecords EXCEPT ![j].progress_percentage =
                              WeightBefore(run.stage)
                                  + (Weights[run.stage] \div 2)]
               /\ UNCHANGED <<gpuInUse, cpuInUse>>
    /\ UNCHANGED <<queue, dispatching, history, definition>>

\* the running stage returns its output and gives its slot back; after the
\* last stage the job is completed
StageSucceed(j, k) ==
    /\ UNCHANGED FrontVars
    /\ k \in 1..Len(runs[j])
    /\ runs[j][k].state = "running"
    /\ LET run == runs[j][k]
           class == ResourceClass[run.stage]
       IN /\ gpuInUse' = Occupancy(class, GPU, gpuInUse, -1)
          /\ cpuInUse' = Occupancy(class, CPU, cpuInUse, -1)
          /\ IF run.token
             THEN Finish(j, k, "cancelled", jobRecords[j].progress_percentage)
             ELSE IF run.stage = Len(Stages)
             THEN Finish(j, k, "completed", 100)
             ELSE /\ runs' = [runs EXCEPT ![j][k] =
                                 [run EXCEPT !.stage = @ + 1,
                                             !.state = "ready",
                                             !.fraction = 0]]
                  /\ jobRecords' = [jobRecords EXCEPT ![j].progress_percentage =
                                 WeightBefore(run.stage + 1)]
    /\ UNCHANGED <<queue, dispatching, history, definition>>

\* the running stage fails or exceeds its budget: the whole job fails, no
\* retry
StageFail(j, k) ==
    /\ UNCHANGED FrontVars
    /\ k \in 1..Len(runs[j])
    /\ runs[j][k].state = "running"
    /\ LET run == runs[j][k]
           class == ResourceClass[run.stage]
       IN /\ gpuInUse' = Occupancy(class, GPU, gpuInUse, -1)
          /\ cpuInUse' = Occupancy(class, CPU, cpuInUse, -1)
          /\ Finish(j, k, IF run.token THEN "cancelled" ELSE "failed",
                    jobRecords[j].progress_percentage)
    /\ UNCHANGED <<queue, dispatching, history, definition>>

\* cancel(job_id): a pending job is cancelled on the spot and leaves the
\* queue; for a processing job the token of its Pipeline Run is set; a
\* terminal or unknown job is left as it is
Cancel(j) ==
    /\ UNCHANGED FrontVars
    /\ jobRecords[j].status \in {"pending", "processing"}
    /\ history[j].cancelledFrom = NULL
    /\ history' = [history EXCEPT ![j].cancelledFrom = jobRecords[j].status]
    /\ IF jobRecords[j].status = "pending"
       THEN /\ jobRecords' = [jobRecords EXCEPT ![j].status = "cancelled",
                                    ![j].completed_at = TS]
            /\ queue' = RemoveAll(queue, j)
            /\ UNCHANGED runs
       ELSE /\ runs' = [runs EXCEPT ![j] =
                          [k \in 1..Len(@) |-> [@[k] EXCEPT !.token = TRUE]]]
            /\ UNCHANGED <<jobRecords, queue>>
    /\ UNCHANGED <<dispatching, gpuInUse, cpuInUse, definition>>

\* the state the store is created with (auth-store.ts:23-27)
InitialAuth ==
    [user |-> NULL, accessToken |-> NULL, refreshToken |-> NULL,
     isAuthenticated |-> FALSE, isInitialized |-> FALSE]

\* no ProtectedRoute is mounted
Unmounted ==
    [mounted |-> FALSE, isValidating |-> TRUE, effectDue |-> FALSE,
     pushed |-> FALSE]


----------------------------------------------------------------------------
Init ==
    /\ useMock \in BOOLEAN
    /\ mockJobs \in InitMockJobs
    /\ backendJobs = InitBackendJobs(useMock, mockJobs)
    /\ activeJobs = <<>>
    /\ websockets = {}
    /\ open = {}
    /\ progress = [j \in JobIds |-> 0]
    /\ timers = [j \in JobIds |-> 0]
    /\ inflight = <<>>
    /\ inbox = [j \in JobIds |-> <<>>]
    /\ cancelResult = NULL
    /\ pageStatus = [j \in JobIds |-> NULL]
    /\ lastEvent = [j \in JobIds |-> NoEvent]
    /\ submission = NoSubmission
    /\ lastInit = NULL
    /\ auth = InitialAuth
    /\ requests = <<>>
    /\ route = Unmounted
    /\ jobRecords = [j \in SchedIds |-> NoJob]
    /\ queue = <<>>
    /\ dispatching = <<>>
    /\ runs = [j \in SchedIds |-> <<>>]
    /\ gpuInUse = 0
    /\ cpuInUse = 0
    /\ history = [j \in SchedIds |-> NoHistory]
    /\ definition = NoDefinition

Tokens == {NULL, "token"}

\* a request on its way to the back end
Sent == [state |-> "sent", data |-> <<>>]

\* initializeJobs fetching the jobs whatever the token
sendsRequest_Always(mock, token) == TRUE

\* initializeJobs fetches the jobs unless it has no token outside mock mode
\* (part_009:78-80)
sendsRequest(mock, token) == ~(~mock /\ token = NULL)

\* initializeJobs up to the await (part_009:76-83)
InitializeJobsCall(token) ==
    /\ Len(inflight) < MaxInflight
    /\ IF sendsRequest(useMock, token)
       THEN inflight' = Append(inflight, Sent) /\ lastInit' = "sent"
       ELSE UNCHANGED inflight /\ lastInit' = "no_token"
    /\ UNCHANGED <<AuthVars, SchedVars, submission,
                   useMock, mockJobs, activeJobs, websockets, open, progress,
                   timers, backendJobs, inbox, cancelResult, pageStatus,
                   lastEvent>>

\* GET /videos/jobs is answered (video.ts:117-130): the response carries the
\* job records as they are at that moment
GetJobsResponds(k) ==
    /\ ~useMock
    /\ k \in 1..Len(inflight)
    /\ inflight[k].state = "sent"
    /\ inflight' = [inflight EXCEPT ![k] =
                        [state |-> "response", data |-> backendJobs]]
    /\ UNCHANGED <<AuthVars, SchedVars, lastInit, submission,
                   useMock, mockJobs, activeJobs, websockets, open, progress,
                   timers, backendJobs, inbox, cancelResult, pageStatus,
                   lastEvent>>

\* apiRequest throws (client.ts:22-70); initializeJobs catches it
\* (part_009:96-98)
GetJobsFails(k) ==
    /\ ~useMock
    /\ k \in 1..Len(inflight)
    /\ inflight[k].state = "sent"
    /\ inflight' = RemoveAt(inflight, k)
    /\ UNCHANGED <<AuthVars, SchedVars, submission,
                   useMock, mockJobs, activeJobs, websockets, open, progress,
                   timers, backendJobs, inbox, cancelResult, pageStatus,
                   lastEvent>>
    /\ lastInit' = "failed"

\* initializeJobs after the await (part_009:83-95); the mock getJobs
\* (video.ts:109-116) resolves with the mockJobs array itself
InitializeJobsResume(k) ==
    /\ k \in 1..Len(inflight)
    /\ IF useMock THEN inflight[k].state = "sent"
                  ELSE inflight[k].state = "response"
    /\ inflight' = RemoveAt(inflight, k)
    /\ SetStore(applyJobs(Store, IF useMock THEN mockJobs
                                            ELSE inflight[k].data))
    /\ UNCHANGED <<AuthVars, SchedVars, submission,
                   useMock, mockJobs, backendJobs, cancelResult, pageStatus,
                   lastEvent>>
    /\ lastInit' = "applied"

\* one firing of the mock interval (part_009:115-139)
MockTick(jobId) ==
    /\ useMock
    /\ jobId \in open
    /\ LET i == Find(activeJobs, jobId)
       IN IF i = 0
          THEN /\ SetStore(closeConnection(Store, jobId))
               /\ UNCHANGED lastEvent
          ELSE \E r \in RandomDraws :
                 LET p == Min(100, progress[jobId] + r)
                     update == [progress_percentage |-> p,
                                status |-> IF p >= 100 THEN "completed"
                                                       ELSE "processing"]
                     st1 == updateJob([Store EXCEPT !.progress[jobId] = p],
                                      jobId, update)
                     st2 == IF p >= 100
                            THEN closureDelete(closeConnection(st1, jobId),
                                               jobId)
                            ELSE st1
                 IN /\ p >= 100 => timers[jobId] < MaxTimers
                    /\ SetStore(st2)
                    /\ lastEvent' = [lastEvent EXCEPT ![jobId] = p]
    /\ UNCHANGED <<AuthVars, SchedVars, lastInit, submission,
                   useMock, mockJobs, inflight, backendJobs, cancelResult,
                   pageStatus>>

\* ws.onmessage (part_009:147-163)
WsOnMessage(jobId) ==
    /\ ~useMock
    /\ jobId \in open
    /\ inbox[jobId] # <<>>
    /\ Head(inbox[jobId]).kind = "event"
    /\ LET update == Head(inbox[jobId])
           st0 == [Store EXCEPT !.inbox[jobId] = Tail(@)]
           st1 == updateJob(st0, jobId,
                            [progress_percentage |-> update.progress_percentage,
                             status |-> update.status])
           st2 == IF update.final
                  THEN closureDelete(closeConnection(st1, jobId), jobId)
                  ELSE st1
       IN /\ update.status \in FinalStatuses => timers[jobId] < MaxTimers
          /\ SetStore(st2)
          /\ lastEvent' = [lastEvent EXCEPT
                              ![jobId] = update.progress_percentage]
    /\ UNCHANGED <<AuthVars, SchedVars, lastInit, submission,
                   useMock, mockJobs, inflight, backendJobs, cancelResult,
                   pageStatus>>

\* ws.onerror (part_009:165-169)
WsOnError(jobId) ==
    /\ ~useMock
    /\ jobId \in open
    /\ SetStore(closureDelete(closeConnection(Store, jobId), jobId))
    /\ UNCHANGED <<AuthVars, SchedVars, lastInit, submission,
                   useMock, mockJobs, inflight, backendJobs, cancelResult,
                   pageStatus, lastEvent>>

\* ws.onclose (part_009:171-173), the peer having closed the socket
WsOnClose(jobId) ==
    /\ ~useMock
    /\ jobId \in open
    /\ inbox[jobId] # <<>>
    /\ Head(inbox[jobId]).kind = "close"
    /\ SetStore(closureDelete(closeConnection(Store, jobId), jobId))
    /\ UNCHANGED <<AuthVars, SchedVars, lastInit, submission,
                   useMock, mockJobs, inflight, backendJobs, cancelResult,
                   pageStatus, lastEvent>>

\* the 5-second timer of updateJob fires (part_009:70-72)
RemoveTimerFires(jobId) ==
    /\ timers[jobId] > 0
    /\ SetStore([removeJob(Store, jobId) EXCEPT !.timers[jobId] = @ - 1])
    /\ UNCHANGED <<AuthVars, SchedVars, lastInit, submission,
                   useMock, mockJobs, inflight, backendJobs, cancelResult,
                   pageStatus, lastEvent>>

\* a direct call of videoApi.cancelJob (video.ts:133-145)
ApiCancel(jobId) ==
    /\ useMock
    /\ LET r == cancelJob(mockJobs, jobId)
       IN /\ mockJobs' = r.jobs
          /\ activeJobs' = Alias(activeJobs, r.jobs)
          /\ cancelResult' = r.result
    /\ UNCHANGED <<AuthVars, SchedVars, lastInit, submission,
                   useMock, websockets, open, progress, timers, inflight,
                   backendJobs, inbox, pageStatus, lastEvent>>

\* JobMiniCard.handleCancel (job-mini-card.tsx:27-38); the button is
\* rendered when canCancel (job-mini-card.tsx:76, 126)
MiniCardCancel(jobId) ==
    /\ useMock
    /\ Find(activeJobs, jobId) # 0
    /\ canCancel(activeJobs[Find(activeJobs, jobId)].status)
    /\ LET r == cancelJob(mockJobs, jobId)
           st == [Store EXCEPT !.activeJobs = Alias(activeJobs, r.jobs)]
       IN /\ mockJobs' = r.jobs
          /\ cancelResult' = r.result
          /\ IF r.result = OK
             THEN SetStore(removeJob(st, jobId))
             ELSE SetStore(st)
    /\ UNCHANGED <<AuthVars, SchedVars, lastInit, submission,
                   useMock, inflight, backendJobs, pageStatus, lastEvent>>

\* the ["jobs"] query of the jobs page fetches (page.tsx:22-37)
PageRefetch ==
    /\ useMock
    /\ pageStatus' = StatusOf(mockJobs)
    /\ UNCHANGED <<AuthVars, SchedVars, lastInit, submission,
                   useMock, mockJobs, activeJobs, websockets, open, progress,
                   timers, inflight, backendJobs, inbox, cancelResult,
                   lastEvent>>

\* cancelJobMutation of the jobs page (page.tsx:39-44, 199-203); the button
\* is rendered when canCancelJob; onSuccess invalidates the query
PageCancel(jobId) ==
    /\ useMock
    /\ canCancelJob(pageStatus[jobId])
    /\ LET r == cancelJob(mockJobs, jobId)
       IN /\ mockJobs' = r.jobs
          /\ activeJobs' = Alias(activeJobs, r.jobs)
          /\ cancelResult' = r.result
          /\ pageStatus' = IF r.result = OK THEN StatusOf(r.jobs)
                           ELSE pageStatus
    /\ UNCHANGED <<AuthVars, SchedVars, lastInit, submission,
                   useMock, websockets, open, progress, timers, inflight,
                   backendJobs, inbox, lastEvent>>

\* the job objects a caller can hand to addJob
KnownJobs == IF useMock THEN mockJobs ELSE backendJobs

\* addJob appending without looking for the job id (part_009:37-39)
addJob_NoExistsCheck(st, job) ==
    LET st1 == [st EXCEPT !.activeJobs = Append(@, job)]
    IN IF job.status = "pending" \/ job.status = "processing"
       THEN connectWebSocket(st1, job.job_id)
       ELSE st1

\* addJob (part_009:33-47)
addJob(st, job) ==
    IF Find(st.activeJobs, job.job_id) # 0
    THEN st
    ELSE LET st1 == [st EXCEPT !.activeJobs = Append(@, job)]
         IN IF job.status = "pending" \/ job.status = "processing"
            THEN connectWebSocket(st1, job.job_id)
            ELSE st1

\* a component calls addJob with a job object it holds
AddJob(i) ==
    /\ i \in 1..Len(KnownJobs)
    /\ SetStore(addJob(Store, KnownJobs[i]))
    /\ UNCHANGED <<AuthVars, SchedVars, lastInit, submission, useMock, mockJobs, inflight,
                   backendJobs, cancelResult, pageStatus, lastEvent>>

----------------------------------------------------------------------------
(* Steps of the back end (specification, section 4.3) *)

\* job ids whose subscription the back end still serves
Subscribed == {j \in open : \A k \in 1..Len(inbox[j]) :
                                inbox[j][k].kind # "close"}

BackendStep(i, st, p, c) ==
    LET job == [backendJobs[i] EXCEPT !.status = st,
                                      !.progress_percentage = p,
                                      !.completed_at = c]
        frames == IF st \in FinalStatuses THEN 2 ELSE 1
    IN /\ ~useMock
       /\ job.job_id \in Subscribed =>
              Len(inbox[job.job_id]) + frames <= MaxInbox
       /\ backendJobs' = [backendJobs EXCEPT ![i] = job]
       /\ inbox' = Publish(inbox, Subscribed, job)
       /\ UNCHANGED <<AuthVars, SchedVars, lastInit, submission,
                      useMock, mockJobs, activeJobs, websockets, open,
                      progress, timers, inflight, cancelResult, pageStatus,
                      lastEvent>>

\* pending -> processing
BackendDispatch(i) ==
    /\ i \in 1..Len(backendJobs)
    /\ backendJobs[i].status = "pending"
    /\ BackendStep(i, "processing", backendJobs[i].progress_percentage, NULL)

\* a stage reports progress
BackendProgress(i) ==
    /\ i \in 1..Len(backendJobs)
    /\ backendJobs[i].status = "processing"
    /\ backendJobs[i].progress_percentage + StageStep < 100
    /\ BackendStep(i, "processing",
                   backendJobs[i].progress_percentage + StageStep, NULL)

\* processing -> completed
BackendComplete(i) ==
    /\ i \in 1..Len(backendJobs)
    /\ backendJobs[i].status = "processing"
    /\ BackendStep(i, "completed", 100, TS)

\* processing -> failed
BackendFail(i) ==
    /\ i \in 1..Len(backendJobs)
    /\ backendJobs[i].status = "processing"
    /\ BackendStep(i, "failed", backendJobs[i].progress_percentage, TS)

\* the back end cleans a closed job up: its record and run are gone
BackendCleanup(i) ==
    /\ ~useMock
    /\ i \in 1..Len(backendJobs)
    /\ backendJobs[i].status \in FinalStatuses
    /\ backendJobs' = RemoveAt(backendJobs, i)
    /\ UNCHANGED <<AuthVars, SchedVars, lastInit, submission, useMock, mockJobs, activeJobs,
                   websockets, open, progress, timers, inflight, inbox,
                   cancelResult, pageStatus, lastEvent>>

\* the peer closes the socket (server shutdown, network): a close frame
PeerCloses(jobId) ==
    /\ ~useMock
    /\ jobId \in Subscribed
    /\ Len(inbox[jobId]) < MaxInbox
    /\ inbox' = [inbox EXCEPT ![jobId] = Append(@, CloseFrame)]
    /\ UNCHANGED <<AuthVars, SchedVars, lastInit, submission,
                   useMock, mockJobs, activeJobs, websockets, open, progress,
                   timers, inflight, backendJobs, cancelResult, pageStatus,
                   lastEvent>>

----------------------------------------------------------------------------
Next ==
    \/ \E t \in Tokens : InitializeJobsCall(t)
    \/ \E k \in 1..MaxInflight : GetJobsResponds(k)
    \/ \E k \in 1..MaxInflight : GetJobsFails(k)
    \/ \E k \in 1..MaxInflight : InitializeJobsResume(k)
    \/ \E j \in JobIds : MockTick(j)
    \/ \E j \in JobIds : WsOnMessage(j)
    \/ \E j \in JobIds : WsOnError(j)
    \/ \E j \in JobIds : WsOnClose(j)
    \/ \E j \in JobIds : RemoveTimerFires(j)
    \/ \E j \in CancelIds : ApiCancel(j)
    \/ \E j \in JobIds : MiniCardCancel(j)
    \/ PageRefetch
    \/ \E j \in JobIds : PageCancel(j)
    \/ \E i \in DOMAIN MockData : AddJob(i)
    \/ \E i \in DOMAIN MockData : BackendDispatch(i)
    \/ \E i \in DOMAIN MockData : BackendProgress(i)
    \/ \E i \in DOMAIN MockData : BackendComplete(i)
    \/ \E i \in DOMAIN MockData : BackendFail(i)
    \/ \E i \in DOMAIN MockData : BackendCleanup(i)
    \/ \E j \in JobIds : PeerCloses(j)

Spec == Init /\ [][Next]_vars

----------------------------------------------------------------------------
(* Submitting a create-video form *)

MonitorVars ==
    <<useMock, mockJobs, activeJobs, websockets, open, progress, timers,
      backendJobs, inbox, cancelResult, pageStatus, lastEvent>>

\* QuickGenerationSection.handleSubmit (part_003:306-340); the submit
\* button is disabled while isGenerating (part_003:428)
HandleSubmitQuick(prompt, length, accessToken) ==
    /\ submission.phase # "generating"
    /\ submission' = handleSubmit("quick", prompt, length,
                                  QuickInferenceSteps, accessToken,
                                  quickErrors(prompt, length))
    /\ UNCHANGED <<MonitorVars, AuthVars, SchedVars, inflight, lastInit>>

\* FullGenerationSection.handleSubmit (part_003:611-651); the submit button
\* is disabled while isGenerating (part_003:971)
HandleSubmitFull(prompt, length, inferenceSteps, seed, accessToken) ==
    /\ submission.phase # "generating"
    /\ submission' = handleSubmit("full", prompt, length, inferenceSteps,
                                  accessToken,
                                  fullErrors(prompt, length, inferenceSteps,
                                             seed))
    /\ UNCHANGED <<MonitorVars, AuthVars, SchedVars, inflight, lastInit>>

\* generateVideo resolves (video.ts:217-233); handleSubmit goes on to
\* initializeJobs(accessToken) (part_003:342-344, 653-655)
GenerateVideoResolves ==
    /\ submission.phase = "generating"
    /\ Len(inflight) < MaxInflight
    /\ submission' = [submission EXCEPT !.phase = "started"]
    /\ inflight' = Append(inflight, Sent)
    /\ UNCHANGED <<MonitorVars, AuthVars, SchedVars>>
    /\ lastInit' = "sent"

\* generateVideo rejects (apiRequest throws); handleSubmit catches it
\* (part_003:345-349, 656-661)
GenerateVideoRejects ==
    /\ ~useMock
    /\ submission.phase = "generating"
    /\ submission' = [submission EXCEPT !.phase = "failed"]
    /\ UNCHANGED <<MonitorVars, AuthVars, SchedVars, inflight, lastInit>>

NextForm ==
    \/ \E p \in Prompts, l \in Lengths, t \in Tokens :
            HandleSubmitQuick(p, l, t)
    \/ \E p \in Prompts, l \in Lengths, n \in InferenceSteps,
            sd \in Seeds, t \in Tokens :
            HandleSubmitFull(p, l, n, sd, t)
    \/ GenerateVideoResolves
    \/ GenerateVideoRejects
    \/ \E k \in 1..MaxInflight : GetJobsResponds(k)
    \/ \E k \in 1..MaxInflight : GetJobsFails(k)
    \/ \E k \in 1..MaxInflight : InitializeJobsResume(k)

SpecForm == Init /\ [][NextForm]_vars

----------------------------------------------------------------------------
(* store/auth-store.ts and components/auth/protected-route                 *)
(* (src/unnamed/part_002)                                                  *)

MaxRequests == 3

\* the User a successful login or getCurrentUser yields, and its token
USER == "user"
ACCESS == "access"

\* a ProtectedRoute as it mounts: useState(true), effect to be run
\* (part_002:58-60)
Mounted ==
    [mounted |-> TRUE, isValidating |-> TRUE, effectDue |-> TRUE,
     pushed |-> FALSE]

\* setAuth (auth-store.ts:28-36)
setAuth(a, user, accessToken, refreshToken) ==
    [user |-> user, accessToken |-> accessToken,
     refreshToken |-> refreshToken,
     isAuthenticated |-> TRUE, isInitialized |-> TRUE]

\* logout (auth-store.ts:37-45)
logout(a) ==
    [user |-> NULL, accessToken |-> NULL, refreshToken |-> NULL,
     isAuthenticated |-> FALSE, isInitialized |-> TRUE]

\* a request sent with accessToken whose response op awaits on behalf of by
Request(op, accessToken, by) ==
    [op |-> op, accessToken |-> accessToken, by |-> by]

\* the store after the awaited getCurrentUser resolved
\* (auth-store.ts:57-62, 77-80)
resolved(a, request) ==
    IF request.op = "initializeAuth"
    THEN [a EXCEPT !.user = USER, !.accessToken = request.accessToken,
                   !.isAuthenticated = TRUE, !.isInitialized = TRUE]
    ELSE [a EXCEPT !.user = USER, !.isAuthenticated = TRUE]

\* what ProtectedRoute renders (part_002:103-116)
Children ==
    /\ route.mounted
    /\ ~(~auth.isInitialized \/ route.isValidating)
    /\ auth.isAuthenticated

\* the effect of ProtectedRoute runs again when isAuthenticated or
\* isInitialized changed (part_002:100)
DepsChanged(a, b) ==
    a.isAuthenticated # b.isAuthenticated \/ a.isInitialized # b.isInitialized

\* the route after the store went from a to b
Rerender(r, a, b) ==
    IF r.mounted /\ DepsChanged(a, b) THEN [r EXCEPT !.effectDue = TRUE]
    ELSE r

\* the requests the mounted ProtectedRoute awaits
Validating == {k \in DOMAIN requests : requests[k].by = "route"}

\* the page loads: the persisted store is rehydrated, what the previous
\* page awaited is gone, and initializeAuth runs unless the store is
\* initialized (auth-store.ts:46-66, 92-98)
Rehydrate ==
    /\ route' = Unmounted
    /\ IF auth.isInitialized
       THEN UNCHANGED auth /\ requests' = <<>>
       ELSE IF auth.accessToken = NULL
       THEN /\ auth' = [auth EXCEPT !.isInitialized = TRUE]
            /\ requests' = <<>>
       ELSE /\ requests' = <<Request("initializeAuth", auth.accessToken,
                                     "store")>>
            /\ UNCHANGED auth
    /\ UNCHANGED NonAuthVars

\* a login, registration or password reset succeeds and calls setAuth
\* (forgot-password/page.tsx:358); these pages are not behind ProtectedRoute
SetAuth ==
    /\ ~route.mounted
    /\ auth' = setAuth(auth, USER, ACCESS, NULL)
    /\ UNCHANGED <<requests, route, NonAuthVars>>

\* the user asks for a logout, a password change or the end of the account
\* in the rendered page: the mutation is sent with the token
\* (header.tsx:30-51, users/me/page.tsx:98-146)
LogoutCall ==
    /\ Children
    /\ Len(requests) < MaxRequests
    /\ requests' = Append(requests,
                          Request("logout", auth.accessToken, "page"))
    /\ UNCHANGED <<auth, route, NonAuthVars>>

\* the mutation settles: its callback logs out and navigates to /login
\* (header.tsx:32-39, users/me/page.tsx:104-146)
Logout(k) ==
    /\ k \in DOMAIN requests
    /\ requests[k].op = "logout"
    /\ auth' = logout(auth)
    /\ requests' = RemoveAt(requests, k)
    /\ route' = IF route.mounted
                THEN [Rerender(route, auth, auth') EXCEPT !.pushed = TRUE]
                ELSE route
    /\ UNCHANGED NonAuthVars

\* a page behind ProtectedRoute is opened
RouteMount ==
    /\ ~route.mounted
    /\ route' = Mounted
    /\ UNCHANGED <<auth, requests, NonAuthVars>>

\* the effect of ProtectedRoute, validateAndCheckSession up to its await
\* (part_002:60-82), with validateSession up to its await
\* (auth-store.ts:67-75)
RouteEffect ==
    /\ route.mounted
    /\ route.effectDue
    /\ IF ~auth.isInitialized
       THEN /\ route' = [route EXCEPT !.effectDue = FALSE]
            /\ UNCHANGED requests
       ELSE IF ~auth.isAuthenticated
       THEN /\ route' = [route EXCEPT !.effectDue = FALSE, !.pushed = TRUE]
            /\ UNCHANGED requests
       ELSE IF auth.accessToken = NULL
       THEN /\ route' = [route EXCEPT !.effectDue = FALSE, !.pushed = TRUE,
                                      !.isValidating = FALSE]
            /\ UNCHANGED requests
       ELSE /\ Len(requests) < MaxRequests
            /\ route' = [route EXCEPT !.effectDue = FALSE,
                                      !.isValidating = TRUE]
            /\ requests' = Append(requests,
                                  Request("validateSession",
                                          auth.accessToken, "route"))
    /\ UNCHANGED <<auth, NonAuthVars>>

\* the profile page refreshes the user after an update
\* (users/me/page.tsx:88-92)
PageValidateSession ==
    /\ Children
    /\ auth.accessToken # NULL
    /\ Len(requests) < MaxRequests
    /\ requests' = Append(requests,
                          Request("validateSession", auth.accessToken,
                                  "page"))
    /\ UNCHANGED <<auth, route, NonAuthVars>>

\* getCurrentUser resolves: the caller stores the user (auth-store.ts:57-62,
\* 77-82); ProtectedRoute goes on after its await (part_002:83-96)
GetCurrentUserResolves(k) ==
    /\ k \in DOMAIN requests
    /\ requests[k].op # "logout"
    /\ auth' = resolved(auth, requests[k])
    /\ requests' = RemoveAt(requests, k)
    /\ LET r == Rerender(route, auth, auth')
       IN route' = IF requests[k].by = "route"
                   THEN [r EXCEPT !.isValidating = FALSE]
                   ELSE r
    /\ UNCHANGED NonAuthVars

\* getCurrentUser rejects, which the mock never does (api/auth.ts:42-56):
\* the caller logs out (auth-store.ts:63-65, 83-86); ProtectedRoute
\* navigates to /login (part_002:85-96)
GetCurrentUserRejects(k) ==
    /\ ~useMock
    /\ k \in DOMAIN requests
    /\ requests[k].op # "logout"
    /\ auth' = logout(auth)
    /\ requests' = RemoveAt(requests, k)
    /\ LET r == Rerender(route, auth, auth')
       IN route' = IF requests[k].by = "route"
                   THEN [r EXCEPT !.isValidating = FALSE, !.pushed = TRUE]
                   ELSE r
    /\ UNCHANGED NonAuthVars

\* the navigation away from the page takes place: ProtectedRoute unmounts,
\* what it awaited goes on without it
Navigate ==
    /\ route.mounted
    /\ route' = Unmounted
    /\ requests' = [k \in DOMAIN requests |->
                       IF requests[k].by = "store" THEN requests[k]
                       ELSE [requests[k] EXCEPT !.by = "gone"]]
    /\ UNCHANGED <<auth, NonAuthVars>>

NextAuth ==
    \/ Rehydrate
    \/ SetAuth
    \/ LogoutCall
    \/ \E k \in 1..MaxRequests : Logout(k)
    \/ RouteMount
    \/ RouteEffect
    \/ PageValidateSession
    \/ \E k \in 1..MaxRequests : GetCurrentUserResolves(k)
    \/ \E k \in 1..MaxRequests : GetCurrentUserRejects(k)
    \/ Navigate

SpecAuth == Init /\ [][NextAuth]_vars

----------------------------------------------------------------------------
(* The back end on its own *)

MaxRunsPerJob == 2

NextSched ==
    \/ \E j \in SchedIds : Submit(j)
    \/ \E j \in SchedIds : DispatchPick(j)
    \/ \E j \in SchedIds : DispatchStart(j)
    \/ \E j \in SchedIds, k \in 1..MaxRunsPerJob :
            StageStart(j, k)
    \/ \E j \in SchedIds, k \in 1..MaxRunsPerJob :
            StageProgress(j, k)
    \/ \E j \in SchedIds, k \in 1..MaxRunsPerJob :
            StageSucceed(j, k)
    \/ \E j \in SchedIds, k \in 1..MaxRunsPerJob :
            StageFail(j, k)
    \/ \E j \in SchedIds : Cancel(j)

\* the back end serves a front end that is not in mock mode
InitSched == Init /\ ~useMock

SpecSched == InitSched /\ [][NextSched]_vars

NextPipeline ==
    \E r \in Resolutions, f \in FpsValues, l \in VideoLengths :
        ResolvePipeline(r, f, l)

SpecPipeline == Init /\ [][NextPipeline]_vars

----------------------------------------------------------------------------
(* Views of the state used by the properties *)

\* the status the job monitor records for a job id, NULL when it has none
MonStatus(jobs, jobId) ==
    IF Find(jobs, jobId) = 0 THEN NULL ELSE jobs[Find(jobs, jobId)].status

Rank(status) ==
    IF status = "pending" THEN 0 ELSE IF status = "processing" THEN 1 ELSE 2

\* a step that is a call of videoApi.cancelJob for the job id
CancelStep(jobId) ==
    \/ ApiCancel(jobId)
    \/ jobId \in JobIds /\ MiniCardCancel(jobId)
    \/ jobId \in JobIds /\ PageCancel(jobId)

\* every job record of the state
AllRecords ==
    {mockJobs[i] : i \in DOMAIN mockJobs}
        \cup {activeJobs[i] : i \in DOMAIN activeJobs}
        \cup {backendJobs[i] : i \in DOMAIN backendJobs}

\* a step that hands a progress event of the job to updateJob
EventStep(jobId) ==
    \/ MockTick(jobId) /\ Find(activeJobs, jobId) # 0
    \/ WsOnMessage(jobId)

\* ... the event being the last one of its stream: the final flag is set
\* (WebSocket), the progress reached 100 (mock interval)
FinalEventStep(jobId) ==
    \/ MockTick(jobId) /\ Find(activeJobs, jobId) # 0
                       /\ lastEvent'[jobId] = 100
    \/ WsOnMessage(jobId) /\ Head(inbox[jobId]).final

\* the stage executions of a resource class that are running
Running(class) ==
    UNION {{<<j, k>> : k \in {n \in 1..Len(runs[j]) :
                                /\ runs[j][n].state = "running"
                                /\ ResourceClass[runs[j][n].stage] = class}}
           : j \in SchedIds}

\* the Pipeline Runs waiting for a slot of a resource class
Waiting(class) ==
    UNION {{<<j, k>> : k \in {n \in 1..Len(runs[j]) :
                                /\ runs[j][n].state = "ready"
                                /\ ResourceClass[runs[j][n].stage] = class}}
           : j \in SchedIds}

\* the job ids in a sequence
Range(seq) == {seq[i] : i \in DOMAIN seq}

\* a step in which updateJob applies a final status to the job
FinalUpdateStep(jobId) ==
    \/ MockTick(jobId) /\ Find(activeJobs, jobId) # 0
                       /\ lastEvent'[jobId] = 100
    \/ WsOnMessage(jobId) /\ Head(inbox[jobId]).status \in FinalStatuses

----------------------------------------------------------------------------
(* C1: cancelJob sets a job's status to cancelled only when the status is  *)
(* pending or processing; called for a job in any other status it leaves   *)
(* every job unchanged; and the two cancel buttons are offered only for a  *)
(* job shown as pending or processing.                                     *)
C1_CancelOnlyFromActive ==
    [][ /\ \A i \in DOMAIN mockJobs :
              (mockJobs'[i].status = "cancelled"
                    /\ mockJobs[i].status # "cancelled")
                 => mockJobs[i].status \in {"pending", "processing"}
        /\ \A j \in JobIds :
              (CancelStep(j)
                    /\ MonStatus(mockJobs, j) \notin {"pending", "processing"})
                 => mockJobs' = mockJobs
        /\ \A j \in JobIds :
              MiniCardCancel(j)
                 => MonStatus(activeJobs, j) \in {"pending", "processing"}
        /\ \A j \in JobIds :
              PageCancel(j) => pageStatus[j] \in {"pending", "processing"}
      ]_vars

\* a cancel was accepted: the job is cancelled and the call resolved
C1_Witness ==
    /\ cancelResult = OK
    /\ \E i \in DOMAIN mockJobs : mockJobs[i].status = "cancelled"

C3_TerminalIsFinal ==
    [][ \A j \in JobIds :
            MonStatus(activeJobs, j) \in FinalStatuses
               => MonStatus(activeJobs', j) \in
                        {MonStatus(activeJobs, j), NULL} ]_vars

(* C4: the statuses the job monitor records for a job id go forward only:  *)
(* pending, then processing, then one of completed, failed, cancelled, and *)
(* never back to a status the job has left.                                *)
C4_StatusOrder ==
    [][ \A j \in JobIds :
            (MonStatus(activeJobs, j) # NULL /\ MonStatus(activeJobs', j) # NULL)
               => /\ Rank(MonStatus(activeJobs', j))
                        >= Rank(MonStatus(activeJobs, j))
                  /\ Rank(MonStatus(activeJobs, j)) = 2
                        => MonStatus(activeJobs', j) = MonStatus(activeJobs, j)
      ]_vars

(* C5: of two progress events of one job, the later never carries a        *)
(* smaller progress_percentage than the earlier.                           *)
C5_ProgressMonotonic ==
    [][ \A j \in JobIds :
            lastEvent[j] # NoEvent => lastEvent'[j] >= lastEvent[j] ]_vars

(* C6: a job record has completed_at set exactly when its status is        *)
(* completed, failed or cancelled.                                         *)
C6_CompletedAtIffFinal ==
    \A job \in AllRecords :
        (job.completed_at # NULL) <=> (job.status \in FinalStatuses)

(* C7: a job record has progress_percentage = 100 exactly when its status  *)
(* is completed.                                                           *)
C7_HundredIffCompleted ==
    \A job \in AllRecords :
        (job.progress_percentage = 100) <=> (job.status = "completed")

\* a progress event took a job of the monitor to completed
C7_Witness ==
    \E j \in JobIds :
        /\ lastEvent[j] = 100
        /\ MonStatus(activeJobs, j) = "completed"

C10_InvalidNeverGenerates ==
    submission.phase \in {"generating", "started", "failed"}
        => /\ \E k \in 1..Len(submission.prompt) : submission.prompt[k] # " "
           /\ submission.video_length >= 1
           /\ submission.inference_steps \in 1..100
           /\ submission.accessToken # NULL

\* a malformed submit has been handled and rejected
C10_Witness ==
    /\ submission.form = "full"
    /\ submission.phase = "rejected"
    /\ submission.inference_steps = 101
    /\ submission.errors = {"inferenceSteps"}

(* C11: a cancel request for a job id that no job has fails with the error *)
(* "Job not found" and changes no job record: the mock job list and the    *)
(* job monitor's list are what they were.                                  *)
C11_UnknownCancelNotFound ==
    [][ \A j \in CancelIds :
            (CancelStep(j) /\ Find(mockJobs, j) = 0)
               => /\ cancelResult' = NotFoundError
                  /\ mockJobs' = mockJobs
                  /\ activeJobs' = activeJobs
                  /\ backendJobs' = backendJobs ]_vars

\* a cancel for an unknown id was refused, next to a job still running
C11_Witness ==
    /\ cancelResult = NotFoundError
    /\ \E i \in DOMAIN mockJobs : mockJobs[i].status = "processing"
    /\ activeJobs # <<>>

C13_PendingCancelNeverRuns ==
    \A j \in SchedIds :
        history[j].cancelledFrom = "pending"
           => /\ jobRecords[j].status = "cancelled"
              /\ jobRecords[j].completed_at # NULL
              /\ runs[j] = <<>>
              /\ history[j].dispatches = 0
              /\ ~history[j].invoked

\* a job was cancelled between being taken off the queue and its dispatch
C13_Witness ==
    \E j \in SchedIds :
        /\ history[j].cancelledFrom = "pending"
        /\ history[j].skipped

(* C14: once a cancel request for a processing job was accepted, the job   *)
(* ends cancelled: it is never recorded as completed or failed afterwards. *)
C14_ProcessingCancelEndsCancelled ==
    [][ \A i \in DOMAIN mockJobs :
          (/\ mockJobs[i].status = "cancelled"
           /\ \E k \in DOMAIN MockData :
                 /\ MockData[k].job_id = mockJobs[i].job_id
                 /\ MockData[k].status = "processing"
           /\ MonStatus(activeJobs, mockJobs[i].job_id)
                 \notin {"completed", "failed"})
             => MonStatus(activeJobs', mockJobs[i].job_id)
                   \notin {"completed", "failed"} ]_vars

(* C17: a subscription always gets a reply: for a job id the back end     *)
(* does not know (never there, or cleaned up) the refusal and nothing      *)
(* else, for a known one the latest event first; and the subscriber that   *)
(* is refused closes its connection.                                       *)
C17_SubscribeUnknownRefused ==
    [][ \A j \in JobIds :
          /\ (~useMock /\ j \notin websockets /\ j \in websockets')
                => /\ inbox'[j] # <<>>
                   /\ Find(backendJobs, j) = 0 => inbox'[j] = <<CloseFrame>>
                   /\ Find(backendJobs, j) # 0
                         => Head(inbox'[j]).kind = "event"
          /\ WsOnClose(j) => (j \notin open' /\ inbox'[j] = <<>>)
      ]_vars

\* the monitor subscribed to a job that had been cleaned up and was refused
C17_Witness ==
    \E j \in JobIds :
        /\ ~useMock
        /\ Find(backendJobs, j) = 0
        /\ MonStatus(activeJobs, j) = "processing"
        /\ j \in open
        /\ inbox[j] = <<CloseFrame>>
        /\ lastEvent[j] = NoEvent

(* C18: the job monitor never holds two live connections for one job id:  *)
(* every live connection is registered in websockets, and while a job's    *)
(* connection is live no step starts another one for it: its interval's    *)
(* progress changes only by its own ticks, its socket's frames only by     *)
(* being handled or by the peer sending more.                              *)
C18_NoDuplicateConnection ==
    /\ [](open \subseteq websockets)
    /\ [][ \A j \in JobIds :
             (j \in open /\ j \in open')
                => /\ progress'[j] # progress[j] => MockTick(j)
                   /\ \/ inbox'[j] = inbox[j]
                      \/ inbox[j] # <<>> /\ inbox'[j] = Tail(inbox[j])
                      \/ /\ Len(inbox'[j]) > Len(inbox[j])
                         /\ SubSeq(inbox'[j], 1, Len(inbox[j])) = inbox[j]
         ]_vars

\* initializeJobs has put a job back into the list whose interval was live
\* and had already advanced: the interval goes on from where it was
C18_Witness ==
    \E j \in JobIds :
        /\ useMock
        /\ j \in open
        /\ Find(activeJobs, j) # 0
        /\ activeJobs[Find(activeJobs, j)].shared
        /\ progress[j] > activeJobs[Find(activeJobs, j)].progress_percentage

(* C19: no two entries of activeJobs share a job_id, and addJob called    *)
(* with a job whose job_id is already in activeJobs leaves activeJobs and  *)
(* websockets as they are.                                                 *)
C19_UniqueJobIds ==
    /\ [](\A a \in DOMAIN activeJobs, b \in DOMAIN activeJobs :
             activeJobs[a].job_id = activeJobs[b].job_id => a = b)
    /\ [][ \A i \in DOMAIN MockData :
             (AddJob(i) /\ Find(activeJobs, KnownJobs[i].job_id) # 0)
                => (activeJobs' = activeJobs /\ websockets' = websockets)
         ]_vars

\* the list holds two jobs, one of them in a newer version than the job
\* object a caller of addJob holds for the same job_id
C19_Witness ==
    /\ Len(activeJobs) = 2
    /\ \E i \in DOMAIN KnownJobs :
          /\ Find(activeJobs, KnownJobs[i].job_id) # 0
          /\ activeJobs[Find(activeJobs, KnownJobs[i].job_id)]
                .progress_percentage > KnownJobs[i].progress_percentage

(* C20: the step in which updateJob applies completed, failed or          *)
(* cancelled to a job closes the job's connection, removes it from         *)
(* websockets and starts the removal timer; from then on the job stays in  *)
(* activeJobs with that status until the timer fires, which removes it.    *)
C20_FinalThenRemoved ==
    [][ \A j \in JobIds :
          /\ FinalUpdateStep(j)
                => /\ j \notin open' /\ j \notin websockets'
                   /\ timers'[j] = timers[j] + 1
                   /\ Find(activeJobs, j) # 0
                         => MonStatus(activeJobs', j) \in FinalStatuses
          /\ (MonStatus(activeJobs, j) \in FinalStatuses /\ timers[j] > 0)
                => \/ MonStatus(activeJobs', j) = MonStatus(activeJobs, j)
                   \/ RemoveTimerFires(j)
          /\ RemoveTimerFires(j) => Find(activeJobs', j) = 0
      ]_vars

(* C15: each job has at most one active Pipeline Run, and has one exactly  *)
(* while it is processing; the dispatcher takes a job only when it is      *)
(* pending and has no run; processing is entered only by a dispatch, once. *)
C15_AtMostOneRun ==
    /\ [](\A j \in SchedIds :
             /\ Len(runs[j]) <= 1
             /\ (Len(runs[j]) = 1) <=> (jobRecords[j].status = "processing")
             /\ history[j].dispatches <= 1)
    /\ [][ \A j \in SchedIds :
             /\ DispatchPick(j)
                   => (jobRecords[j].status = "pending" /\ runs[j] = <<>>)
             /\ (jobRecords'[j].status = "processing"
                    /\ jobRecords[j].status # "processing")
                   => (DispatchStart(j)
                         /\ history'[j].dispatches
                                = history[j].dispatches + 1)
         ]_vars

\* two jobs are processing, each in its own single Pipeline Run
C15_Witness ==
    \E i \in SchedIds, j \in SchedIds :
        /\ i # j
        /\ Len(runs[i]) = 1 /\ runs[i][1].stage > 1
        /\ Len(runs[j]) = 1
        /\ history[i].dispatches = 1 /\ history[j].dispatches = 1

(* C16: the Pipeline Definition generates at 512 and 8 fps and computes    *)
(* the upscale factor as requested resolution / 512 and the interpolation  *)
(* factor as requested fps / 8: 1024 at 24 fps gives 2 and 3; 512 at 8 fps *)
(* gives 1 and 1, and the interpolation stage passes its input through.    *)
C16_Factors ==
    definition # NoDefinition
       => /\ definition.generate.resolution = 512
          /\ definition.generate.fps = 8
          /\ definition.upscale.factor[1] * 512
                = definition.upscale.factor[2] * definition.resolution
          /\ definition.interpolate.factor[1] * 8
                = definition.interpolate.factor[2] * definition.fps
          /\ (definition.resolution = 1024 /\ definition.fps = 24)
                => /\ definition.upscale.factor = <<2, 1>>
                   /\ definition.interpolate.factor = <<3, 1>>
          /\ (definition.resolution = 512 /\ definition.fps = 8)
                => /\ definition.upscale.factor = <<1, 1>>
                   /\ definition.interpolate.factor = <<1, 1>>
                   /\ definition.interpolate.pass_through

\* the definition for 1024 at 24 fps has been resolved
C16_Witness ==
    /\ definition.resolution = 1024
    /\ definition.fps = 24
    /\ definition.upscale.factor = <<2, 1>>
    /\ definition.interpolate.factor = <<3, 1>>

\* the jobs of the response that initializeJobs has just received
ResponseData(k) == IF useMock THEN mockJobs ELSE inflight[k].data

(* C21: when the jobs request of initializeJobs succeeds, activeJobs       *)
(* becomes the jobs of the response that are pending or processing, in the *)
(* order of the response and nothing else, and each of them has an entry   *)
(* in websockets afterwards.                                               *)
C21_InitializeJobsResult ==
    [][ \A k \in 1..MaxInflight :
          InitializeJobsResume(k)
             => LET data == ResponseData(k)
                    kept == {i \in DOMAIN data :
                                data[i].status \in {"pending", "processing"}}
                IN /\ Len(activeJobs') = Cardinality(kept)
                   /\ \A i \in kept :
                         \E a \in DOMAIN activeJobs' : activeJobs'[a] = data[i]
                   /\ \A a \in DOMAIN activeJobs' :
                         /\ activeJobs'[a].status \notin FinalStatuses
                         /\ activeJobs'[a].job_id \in websockets'
                   /\ \A a \in DOMAIN activeJobs', b \in DOMAIN activeJobs' :
                         a < b =>
                            \E i \in kept, n \in kept :
                               /\ i < n
                               /\ data[i] = activeJobs'[a]
                               /\ data[n] = activeJobs'[b]
      ]_vars

\* initializeJobs has put a job into the list as the server has it, after
\* the monitor had seen the job progress further
C21_Witness ==
    \E j \in JobIds :
        /\ useMock
        /\ lastEvent[j] = 80
        /\ Find(activeJobs, j) # 0
        /\ activeJobs[Find(activeJobs, j)].shared
        /\ activeJobs[Find(activeJobs, j)].status = "processing"
        /\ activeJobs[Find(activeJobs, j)].progress_percentage = 65
        /\ j \in websockets
        /\ Find(activeJobs, "job-1") = 0

(* C26: when the WebSocket of a job is closed by the peer or reports an    *)
(* error, the job's entry is removed from the store's websockets, so that  *)
(* a later connectWebSocket for the job opens a new connection.            *)
C26_ClosedSocketUnregistered ==
    [][ \A j \in JobIds :
          (WsOnError(j) \/ WsOnClose(j))
             => /\ j \notin websockets'
                /\ LET st == connectWebSocket([Store EXCEPT
                                 !.websockets = websockets',
                                 !.open = open',
                                 !.inbox = inbox'], j)
                   IN j \in st.open
      ]_vars

(* C22: initializeJobs called without a token outside mock mode sends no   *)
(* request and leaves activeJobs and websockets as they are; so does a     *)
(* jobs request that fails.                                                *)
C22_InitializeJobsNoEffect ==
    [][ /\ (~useMock /\ InitializeJobsCall(NULL))
              => /\ inflight' = inflight
                 /\ activeJobs' = activeJobs
                 /\ websockets' = websockets
        /\ \A k \in 1..MaxInflight :
              GetJobsFails(k)
                 => /\ activeJobs' = activeJobs
                    /\ websockets' = websockets
                    /\ open' = open
      ]_vars

\* the jobs request of an initializeJobs call failed while the monitor
\* held a connected job
C22_Witness ==
    /\ lastInit = "failed"
    /\ activeJobs # <<>>
    /\ websockets # {}

\* C24: once logout() has run, isAuthenticated stays false and accessToken
\* stays null until the next setAuth call, whatever getCurrentUser request
\* started before the logout completes afterwards.
C24_LoggedOutUntilSetAuth ==
    [][(auth = logout(auth) /\ ~SetAuth)
         => (~auth'.isAuthenticated /\ auth'.accessToken = NULL)]_vars

\* C25: in every reachable state of the auth store, isAuthenticated = true
\* implies that user and accessToken are both non-null.
C25_AuthenticatedHasUserAndToken ==
    auth.isAuthenticated => (auth.user # NULL /\ auth.accessToken # NULL)

\* the validateSession call of ProtectedRoute returns false or throws in
\* this step
ValidateSessionFails ==
    \/ /\ RouteEffect
       /\ auth.isInitialized /\ auth.isAuthenticated
       /\ auth.accessToken = NULL
    \/ \E k \in DOMAIN requests :
          requests[k].by = "route" /\ GetCurrentUserRejects(k)

\* C23: ProtectedRoute renders its children only when isInitialized and
\* isAuthenticated are both true and no session validation is in progress;
\* when its effect finds auth initialized and the user not authenticated,
\* or its validateSession returns false or throws, children are not
\* rendered and it navigates to /login.
C23_ChildrenOnlyWhenValid ==
    /\ [](Children => /\ auth.isInitialized
                      /\ auth.isAuthenticated
                      /\ Validating = {})
    /\ [][(\/ RouteEffect /\ auth.isInitialized /\ ~auth.isAuthenticated
           \/ ValidateSessionFails)
            => (route'.pushed /\ ~Children')]_vars

====
